---- MODULE Spec2Model ----
(***************************************************************************)
(* State-space GR4 rainfall-runoff model: the three transfer functions     *)
(* SurfaceLayer.run, SubSurface.run and OpenWater.run of one grid cell     *)
(* (every array operation of the source is elementwise), chained by the    *)
(* driver once per timestep.                                               *)
(*                                                                         *)
(* Numbers.  A depth or store (kg m-2) is an integer count of 1/SC units   *)
(* (fixed point, every product and quotient rounded down).  A flux         *)
(* (kg m-2 s-1) is an integer count of 1/(SC*DaySeconds) units, so that a  *)
(* depth of d units over a day is a flux of d units.  IEEE non-finite      *)
(* results the source can produce are the values PosInf, NegInf and NaN.   *)
(***************************************************************************)
EXTENDS Integers, Sequences, FiniteSets, TLC

\* ------------------------------------------------------------------ bounds
SC == 1000          \* fixed-point resolution: units per kg m-2
MaxSteps == 3       \* timesteps the driver runs
MaxNRes == 3        \* largest number of Nash cascade stores explored
HistLen == 2        \* slots of every state history buffer
MaxStore == 3       \* the driver stops once the routing store exceeds this

\* --------------------------------------------------------- program constants
DaySeconds == 86400
Clamp13 == 13
AlphaDefault == 2
NuNum == 4
NuDen == 9
OmegaNum == 7
OmegaDen == 2
PhiNum == 9
PhiDen == 10

\* ------------------------------------------------------- extended numbers
PosInf == 2 ^ 30
NegInf == -(2 ^ 30)
NaN == 2 ^ 30 + 1

IsFinite(v) == v > NegInf /\ v < PosInf

Max(a, b) == IF a >= b THEN a ELSE b
Min(a, b) == IF a <= b THEN a ELSE b

\* a + b in IEEE arithmetic
XAdd(a, b) ==
    IF a = NaN \/ b = NaN THEN NaN
    ELSE IF a = PosInf THEN (IF b = NegInf THEN NaN ELSE PosInf)
    ELSE IF a = NegInf THEN (IF b = PosInf THEN NaN ELSE NegInf)
    ELSE IF b = PosInf \/ b = NegInf THEN b
    ELSE a + b

XNeg(a) == IF a = NaN THEN NaN ELSE IF a = PosInf THEN NegInf
           ELSE IF a = NegInf THEN PosInf ELSE -a

\* fixed-point product floor(a*b/SC), computed without leaving 32 bits
Mul(a, b) == (a \div SC) * b + ((a % SC) * b) \div SC

\* fixed-point quotient floor(a*SC/b), b # 0
Div(a, b) ==
    IF b > 0 THEN (a \div b) * SC + ((a % b) * SC) \div b
    ELSE ((-a) \div (-b)) * SC + (((-a) % (-b)) * SC) \div (-b)

\* a * b in IEEE arithmetic (fixed point on finite values)
XMul(a, b) ==
    IF a = NaN \/ b = NaN THEN NaN
    ELSE IF ~IsFinite(a) \/ ~IsFinite(b)
         THEN (IF a = 0 \/ b = 0 THEN NaN
               ELSE IF (a > 0) = (b > 0) THEN PosInf ELSE NegInf)
    ELSE Mul(a, b)

\* x ** n for an integer n >= 0 (0 ** 0 = 1)
RECURSIVE PowInt(_, _)
PowInt(x, n) == IF n = 0 THEN SC ELSE Mul(PowInt(x, n - 1), x)

\* acc * y ** n <= x, stopping as soon as the product exceeds x
RECURSIVE PowLeq(_, _, _, _)
PowLeq(acc, y, n, x) ==
    IF n = 0 THEN acc <= x
    ELSE IF y >= SC /\ acc > x THEN FALSE
    ELSE PowLeq(Mul(acc, y), y, n - 1, x)

RECURSIVE RootSearch(_, _, _, _)
RootSearch(x, n, lo, hi) ==
    IF lo >= hi THEN lo
    ELSE LET mid == (lo + hi + 1) \div 2
         IN  IF PowLeq(SC, mid, n, x) THEN RootSearch(x, n, mid, hi)
             ELSE RootSearch(x, n, lo, mid - 1)

\* x ** (1/n) for x >= 0, n >= 1: the largest y with y ** n <= x
Root(x, n) ==
    IF n = 1 \/ x = 0 THEN x
    ELSE RootSearch(x, n, 0,
                    IF x <= SC THEN SC ELSE IF x < 46 * SC THEN x ELSE 46 * SC)

\* x ** (num/den) for x >= 0 and den >= 1, as numpy's power
Pow(x, num, den) ==
    IF num >= 0 THEN PowInt(Root(x, den), num)
    ELSE LET b == PowInt(Root(x, den), -num)
         IN  IF b = 0 THEN PosInf ELSE Div(SC, b)

\* exp(-x) for x >= 0: halving, then the series of degree 5
RECURSIVE ExpNeg(_)
ExpNeg(x) ==
    IF x <= SC \div 2
    THEN LET x2 == Mul(x, x)
             x3 == Mul(x2, x)
             x4 == Mul(x3, x)
             x5 == Mul(x4, x)
         IN  SC - x + x2 \div 2 - x3 \div 6 + x4 \div 24 - x5 \div 120
    ELSE LET h == ExpNeg(x \div 2) IN Mul(h, h)

\* np.exp
Exp(x) ==
    IF x <= 0 THEN ExpNeg(-x)
    ELSE IF ExpNeg(x) = 0 THEN PosInf ELSE Div(SC, ExpNeg(x))

\* np.tanh
Tanh(x) ==
    IF x >= 0 THEN Div(SC - ExpNeg(2 * x), SC + ExpNeg(2 * x))
    ELSE -Div(SC - ExpNeg(-2 * x), SC + ExpNeg(-2 * x))

\* flux * dt and depth / dt
ToDepth(flux, dt) == (flux * dt) \div DaySeconds
ToFlux(depth, dt) == (depth * DaySeconds) \div dt


\* ------------------------------------------------------------ configuration
\* parameters of the run (fixed for the whole simulation)
X1 == 4 * SC
X2Values == {-2 * SC, 0, SC \div 10}
X4Values == {SC}
TimeDeltas == {DaySeconds, DaySeconds \div 2}
\* <<beta, gamma, kind, x3>>: the exponents given for the run, whether the
\* constants reach run as Python scalars or as numpy scalars, and the
\* routing capacity explored with them (the smallest capacity is explored
\* without exchange, where (r / x3) ** omega stays within the integer range)
ExponentChoices ==
    { <<5, 5, "python", 4 * SC>>, <<2, 2, "python", SC \div 2>>,
      <<2, 2, "python", SC \div 10>>,
      <<1, 5, "python", 4 * SC>>, <<1, 5, "numpy", 4 * SC>>,
      <<5, 1, "python", 4 * SC>>, <<5, 1, "numpy", 4 * SC>> }
\* <<rainfall_flux, potential_water_evapotranspiration_flux>> of a timestep
Forcings == { <<0, 0>>, <<SC, 2 * SC>>, <<3 * SC, SC>>, <<6 * SC, 0>> }

Configs ==
    { c \in { [ x1 |-> X1, x2 |-> x2, x3 |-> e[4], x4 |-> x4, dt |-> dt,
                nres |-> nres, alpha |-> AlphaDefault, exps |-> e ] :
              x2 \in X2Values, x4 \in X4Values, dt \in TimeDeltas,
              nres \in 1..MaxNRes, e \in ExponentChoices } :
      c.x2 # 0 => c.x3 >= SC \div 2 }

Beta(c) == c.exps[1]
Gamma(c) == c.exps[2]
Kind(c) == c.exps[3]

\* -------------------------------------------------------- history buffers
\* A state is a sequence of HistLen slots; Python index 0 is the first slot
\* and Python index -1 the last.
\* production_store[0] read where production_store[-1] is meant
PrevSlotReadsNext(buf) == buf[1]
\* store[-1]
PrevSlot(buf) == buf[Len(buf)]
\* store[0]
NextSlot(buf) == buf[1]
\* store[-1][:] = v where store[0][:] = v is meant
WritePrev(buf, v) == [buf EXCEPT ![Len(buf)] = v]
\* store[0][:] = v
WriteNext(buf, v) == [buf EXCEPT ![1] = v]
\* the driver's move to the next timestep: what was written becomes previous
Rotate(buf) == Tail(buf) \o <<Head(buf)>>

Zeros(n) == [i \in 1..n |-> 0]
RECURSIVE SumSeq(_)
SumSeq(q) == IF q = <<>> THEN 0 ELSE Head(q) + SumSeq(Tail(q))

\* ---------------------------------------------------------- SurfaceLayer.run
\* interception: rainfall left once the demand is met
NetRainfall(e_minus_p) == Max(-e_minus_p, 0)

\* water-limited where the demand is at least the rainfall
WaterLimited(e_minus_p) == e_minus_p >= 0

\* evaporation from the soil under water-limited conditions
SoilEvaporation(water_limited, en, s_over_x1, x1, alpha) ==
    LET en_over_x1 == IF water_limited
                      THEN Min(Div(en, x1), Clamp13 * SC) ELSE 0
        tanh_en_over_x1 == Tanh(en_over_x1)
        s == IF water_limited THEN Mul(s_over_x1, x1) ELSE 0
        s_alpha_over_x1 == Div(PowInt(s, alpha), x1)
    IN  IF water_limited
        THEN Div(Mul(2 * s - s_alpha_over_x1, tanh_en_over_x1),
                 SC + Mul(SC - s_over_x1, tanh_en_over_x1))
        ELSE 0

\* ae = where(water_limited, es + p, 0) without ae[energy_limited] = e
ActualEvapotranspirationNoOverride(water_limited, es, p, e) ==
    IF water_limited THEN es + p ELSE 0

\* ae = where(water_limited, es + p, 0); ae[energy_limited] = e
ActualEvapotranspiration(water_limited, es, p, e) ==
    IF water_limited THEN es + p ELSE e

\* the locals and outputs of one call, for one cell
SurfaceLayer(c, soil_water_stress, water_level, rain, pet) ==
    LET dt == c.dt
        p == ToDepth(rain, dt)
        e == ToDepth(pet, dt)
        e_minus_p == e - p
        en == Max(e_minus_p, 0)
        pn == NetRainfall(e_minus_p)
        water_limited == WaterLimited(e_minus_p)
        es == SoilEvaporation(water_limited, en, soil_water_stress,
                              c.x1, c.alpha)
        ae == ActualEvapotranspiration(water_limited, es, p, e)
    IN  [ p |-> p, e |-> e, pn |-> pn, es |-> es, ae |-> ae,
          water_limited |-> water_limited,
          throughfall |-> ToFlux(pn, dt),
          snowmelt |-> 0,
          transpiration |-> 0,
          evaporation_soil_surface |-> ToFlux(es, dt),
          evaporation_ponded_water |-> 0,
          evaporation_openwater |-> 0,
          actual_water_evapotranspiration_flux |-> ToFlux(ae, dt) ]

\* ------------------------------------------------------------ SubSurface.run
\* nu and x4 converted to the timestep
NuOfStep(dt) ==
    Mul((NuNum * SC) \div NuDen, Pow((DaySeconds * SC) \div dt, 1, 4))
X4OfStep(x4, dt) == Mul(x4, (DaySeconds * SC) \div dt)

\* infiltration into the production store
Production(s_, pn, x1, alpha) ==
    LET s_over_x1 == Div(s_, x1)
        pn_over_x1 == Min(Div(pn, x1), Clamp13 * SC)
        tanh_pn_over_x1 == Tanh(pn_over_x1)
    IN  IF pn > 0
        THEN Div(Mul(Mul(x1, SC - PowInt(s_over_x1, alpha)), tanh_pn_over_x1),
                 SC + Mul(s_over_x1, tanh_pn_over_x1))
        ELSE 0

\* s *= s > 0
ClampStore(s) == IF s > 0 THEN s ELSE 0

\* x ** (+inf), the exponent 1 / (1 - 1.0) of numpy
PowInf(x) == IF x > SC THEN PosInf ELSE IF x = SC THEN SC ELSE 0

\* percolation from the production store
Percolation(s, x1, nu, beta) ==
    LET s_over_x1 == Div(s, x1)
        base == SC + PowInt(Mul(nu, s_over_x1), beta - 1)
        inner == IF beta = 1 THEN PowInf(base) ELSE Pow(base, -1, beta - 1)
    IN  XMul(s, XAdd(SC, XNeg(inner)))

OutflowCoefficient(nres, x4) == SC - Exp(Div((1 - nres) * SC, x4))

\* the cascade without sh[..., i] -= qsh[..., i]
RECURSIVE CascadeKeepsOutflow(_, _, _, _)
CascadeKeepsOutflow(sh_, pr, k, i) ==
    IF i = 0 THEN [sh |-> <<>>, qsh |-> <<>>]
    ELSE LET upstream == CascadeKeepsOutflow(sh_, pr, k, i - 1)
             inflow == IF i = 1 THEN pr ELSE upstream.qsh[i - 1]
             filled == XAdd(sh_[i], inflow)
         IN  [ sh |-> Append(upstream.sh, filled),
               qsh |-> Append(upstream.qsh, XMul(filled, k)) ]

\* the cascade with every outflow taken from the previous-step content
RECURSIVE CascadeParallel(_, _, _, _)
CascadeParallel(sh_, pr, k, i) ==
    IF i = 0 THEN [sh |-> <<>>, qsh |-> <<>>]
    ELSE LET upstream == CascadeParallel(sh_, pr, k, i - 1)
             inflow == IF i = 1 THEN pr ELSE upstream.qsh[i - 1]
             out == XMul(sh_[i], k)
         IN  [ sh |-> Append(upstream.sh,
                             XAdd(XAdd(sh_[i], inflow), XNeg(out))),
               qsh |-> Append(upstream.qsh, out) ]

\* the first i stores of the cascade after routing, with their outflows
RECURSIVE Cascade(_, _, _, _)
Cascade(sh_, pr, k, i) ==
    IF i = 0 THEN [sh |-> <<>>, qsh |-> <<>>]
    ELSE LET upstream == Cascade(sh_, pr, k, i - 1)
             inflow == IF i = 1 THEN pr ELSE upstream.qsh[i - 1]
             filled == XAdd(sh_[i], inflow)
             out == XMul(filled, k)
         IN  [ sh |-> Append(upstream.sh, XAdd(filled, XNeg(out))),
               qsh |-> Append(upstream.qsh, out) ]

\* v / d and v / dt on a value that may be non-finite (d, dt > 0)
XDiv(v, d) == IF IsFinite(v) THEN Div(v, d) ELSE v
XToFlux(v, dt) == IF IsFinite(v) THEN ToFlux(v, dt) ELSE v

\* the locals and outputs of one call, for one cell
SubSurface(c, xch, s_, sh_) ==
    LET dt == c.dt
        pn == ToDepth(xch.throughfall + xch.snowmelt, dt)
        es == ToDepth(xch.transpiration + xch.evaporation_soil_surface
                      + xch.evaporation_ponded_water, dt)
        nres == Len(sh_)
        nu == NuOfStep(dt)
        x4 == X4OfStep(c.x4, dt)
        ps == Production(s_, pn, c.x1, c.alpha)
        s0 == ClampStore(s_ + ps - es)
        perc == Percolation(s0, c.x1, nu, Beta(c))
        pr == XAdd(pn - ps, perc)
        s == XAdd(s0, XNeg(perc))
        k == OutflowCoefficient(nres, x4)
        routed == Cascade(sh_, pr, k, nres)
        quh == routed.qsh[nres]
    IN  [ pn |-> pn, es |-> es, ps |-> ps, perc |-> perc, pr |-> pr,
          s_ |-> s_, sh_ |-> sh_, s |-> s, sh |-> routed.sh,
          qsh |-> routed.qsh, k |-> k, quh |-> quh,
          surface_runoff |-> 0,
          subsurface_runoff |-> XToFlux(quh, dt),
          soil_water_stress |-> XDiv(s, c.x1) ]

\* ------------------------------------------------------------- OpenWater.run
\* potential inter-catchment exchange
Exchange(r_, x2, x3) ==
    IF r_ > 0 THEN Mul(x2, Pow(Div(r_, x3), OmegaNum, OmegaDen)) ELSE 0

\* the routing store without r[r < 0.0] = 0.0
NoClampRouting(r) == r

\* r[r < 0.0] = 0.0
ClampRouting(r) == IF r < 0 THEN 0 ELSE r

\* the expression of the third argument of np.where for qr
RoutingOutflowRaw(r, x3, gamma) ==
    LET a == PowInt(Div(r, x3), gamma - 1)
        inner == IF gamma = 1 THEN PowInf(a) ELSE Pow(a, -1, gamma - 1)
    IN  XMul(r, XAdd(SC, XNeg(XAdd(SC, inner))))

\* qr without the mask r > 0.0 of np.where
RoutingOutflowUnmasked(r, x3, gamma) == RoutingOutflowRaw(r, x3, gamma)

\* runoff from the routing store
RoutingOutflow(r, x3, gamma) ==
    IF r > 0 THEN RoutingOutflowRaw(r, x3, gamma) ELSE 0

\* q = qr + qd; q[q < 0.0] = 0.0
TotalRunoff(qr, qd) ==
    LET q == XAdd(qr, qd) IN IF q # NaN /\ q < 0 THEN 0 ELSE q

\* OpenWater.run with the outflow taken out of the store (r -= qr) before
\* the store is written and water_level emitted
OpenWaterSubtractsOutflow(c, xch, r_) ==
    LET quh == ToDepth(xch.surface_runoff + xch.subsurface_runoff, c.dt)
        q9 == (quh * PhiNum) \div PhiDen
        q1 == (quh * (PhiDen - PhiNum)) \div PhiDen
        f == Exchange(r_, c.x2, c.x3)
        filled == ClampRouting(r_ + q9 + f)
        qr == RoutingOutflow(filled, c.x3, Gamma(c))
        r == XAdd(filled, XNeg(qr))
        qd == Max(q1 + f, 0)
        q == TotalRunoff(qr, qd)
    IN  [ quh |-> quh, q9 |-> q9, q1 |-> q1, f |-> f, r_ |-> r_, r |-> r,
          qr |-> qr, qd |-> qd,
          water_level |-> r,
          outgoing_water_volume_transport_along_river_channel |-> q ]

\* the locals and outputs of one call, for one cell
OpenWater(c, xch, r_) ==
    LET quh == ToDepth(xch.surface_runoff + xch.subsurface_runoff, c.dt)
        q9 == (quh * PhiNum) \div PhiDen
        q1 == (quh * (PhiDen - PhiNum)) \div PhiDen
        f == Exchange(r_, c.x2, c.x3)
        r == ClampRouting(r_ + q9 + f)
        qr == RoutingOutflow(r, c.x3, Gamma(c))
        qd == Max(q1 + f, 0)
        q == TotalRunoff(qr, qd)
    IN  [ quh |-> quh, q9 |-> q9, q1 |-> q1, f |-> f, r_ |-> r_, r |-> r,
          qr |-> qr, qd |-> qd,
          water_level |-> r,
          outgoing_water_volume_transport_along_river_channel |-> q ]

\* ------------------------------------------------------------ state machine
VARIABLES
    cfg,                   \* parameters, constants and timestep of the run
    step,                  \* number of the current timestep
    pc,                    \* component the driver calls next
    calls,                 \* calls of the last component in this timestep
    rainfall_flux,
    potential_water_evapotranspiration_flux,
    production_store,      \* history buffer of the production store
    nash_cascade_stores,   \* history buffer of the cascade stores
    routing_store,         \* history buffer of the routing store
    sl,                    \* locals and outputs of the last SurfaceLayer.run
    ss,                    \* locals and outputs of the last SubSurface.run
    ow,                    \* locals and outputs of the last OpenWater.run
    error,                 \* exception that ended the run, or "none"
    zero_forcing,          \* every forcing so far was zero
    q9_received            \* sum of the q9 of every timestep's OpenWater.run

vars == << cfg, step, pc, calls, rainfall_flux,
           potential_water_evapotranspiration_flux, production_store,
           nash_cascade_stores, routing_store, sl, ss, ow, error,
           zero_forcing, q9_received >>

stores == << production_store, nash_cascade_stores, routing_store >>
forcing == << rainfall_flux, potential_water_evapotranspiration_flux >>

\* what the exchanger and the records hold before the first call
NoSurfaceLayer ==
    [ p |-> 0, e |-> 0, pn |-> 0, es |-> 0, ae |-> 0,
      water_limited |-> TRUE, throughfall |-> 0, snowmelt |-> 0,
      transpiration |-> 0, evaporation_soil_surface |-> 0,
      evaporation_ponded_water |-> 0, evaporation_openwater |-> 0,
      actual_water_evapotranspiration_flux |-> 0 ]
NoSubSurface(nres) ==
    [ pn |-> 0, es |-> 0, ps |-> 0, perc |-> 0, pr |-> 0,
      s_ |-> 0, sh_ |-> Zeros(nres), s |-> 0, sh |-> Zeros(nres),
      qsh |-> Zeros(nres), k |-> 0, quh |-> 0,
      surface_runoff |-> 0, subsurface_runoff |-> 0,
      soil_water_stress |-> 0 ]
NoOpenWater ==
    [ quh |-> 0, q9 |-> 0, q1 |-> 0, f |-> 0, r_ |-> 0, r |-> 0,
      qr |-> 0, qd |-> 0, water_level |-> 0,
      outgoing_water_volume_transport_along_river_channel |-> 0 ]

\* initialise: the previous slot of every store is zeroed
InitialiseSubSurface(nres) ==
    [ production_store |-> [i \in 1..HistLen |-> 0],
      nash_cascade_stores |-> [i \in 1..HistLen |-> Zeros(nres)] ]
InitialiseOpenWater == [ routing_store |-> [i \in 1..HistLen |-> 0] ]

Init ==
    /\ cfg \in Configs
    /\ step = 1
    /\ pc = "surfacelayer"
    /\ calls = 0
    /\ \E fc \in Forcings :
          /\ rainfall_flux = fc[1]
          /\ potential_water_evapotranspiration_flux = fc[2]
          /\ zero_forcing = (fc = <<0, 0>>)
    /\ production_store = InitialiseSubSurface(cfg.nres).production_store
    /\ nash_cascade_stores = InitialiseSubSurface(cfg.nres).nash_cascade_stores
    /\ routing_store = InitialiseOpenWater.routing_store
    /\ sl = NoSurfaceLayer
    /\ ss = NoSubSurface(cfg.nres)
    /\ ow = NoOpenWater
    /\ error = "none"
    /\ q9_received = 0

\* 1 / (1 - beta) and 1 / (1 - gamma) on Python scalars
RaisesZeroDivision(c, exponent) == Kind(c) = "python" /\ exponent = 1

SurfaceLayerCall ==
    /\ sl' = SurfaceLayer(cfg, ss.soil_water_stress, ow.water_level,
                          rainfall_flux,
                          potential_water_evapotranspiration_flux)
    /\ UNCHANGED << cfg, step, forcing, stores, ss, ow, error, zero_forcing,
                    q9_received >>

SurfaceLayerRun ==
    /\ pc = "surfacelayer"
    /\ SurfaceLayerCall
    /\ pc' = "subsurface"
    /\ calls' = 1

\* the same call made a second time with nothing changed in between
SurfaceLayerRerun ==
    /\ pc = "subsurface" /\ calls = 1
    /\ SurfaceLayerCall
    /\ calls' = 2
    /\ UNCHANGED pc

SubSurfaceCall ==
    LET out == SubSurface(cfg, sl, PrevSlot(production_store),
                          PrevSlot(nash_cascade_stores))
    IN  /\ ss' = out
        /\ production_store' = WriteNext(production_store, out.s)
        /\ nash_cascade_stores' = WriteNext(nash_cascade_stores, out.sh)
        /\ UNCHANGED << cfg, step, forcing, routing_store, sl, ow, error,
                        zero_forcing, q9_received >>

SubSurfaceRun ==
    /\ pc = "subsurface"
    /\ ~RaisesZeroDivision(cfg, Beta(cfg))
    /\ SubSurfaceCall
    /\ pc' = IF IsFinite(ss'.s) THEN "openwater" ELSE "nonfinite"
    /\ calls' = 1

SubSurfaceRaise ==
    /\ pc = "subsurface"
    /\ RaisesZeroDivision(cfg, Beta(cfg))
    /\ pc' = "raised"
    /\ error' = "ZeroDivisionError"
    /\ calls' = 1
    /\ UNCHANGED << cfg, step, forcing, stores, sl, ss, ow, zero_forcing,
                    q9_received >>

SubSurfaceRerun ==
    /\ pc = "openwater" /\ calls = 1
    /\ SubSurfaceCall
    /\ calls' = 2
    /\ UNCHANGED pc

OpenWaterCall ==
    LET out == OpenWater(cfg, ss, PrevSlot(routing_store))
    IN  /\ ow' = out
        /\ routing_store' = WriteNext(routing_store, out.r)
        /\ UNCHANGED << cfg, step, forcing, production_store,
                        nash_cascade_stores, sl, ss, error, zero_forcing >>

OpenWaterRun ==
    /\ pc = "openwater"
    /\ ~RaisesZeroDivision(cfg, Gamma(cfg))
    /\ OpenWaterCall
    /\ q9_received' = q9_received + ow'.q9
    /\ pc' = "advance"
    /\ calls' = 1

OpenWaterRaise ==
    /\ pc = "openwater"
    /\ RaisesZeroDivision(cfg, Gamma(cfg))
    /\ pc' = "raised"
    /\ error' = "ZeroDivisionError"
    /\ calls' = 1
    /\ UNCHANGED << cfg, step, forcing, stores, sl, ss, ow, zero_forcing,
                    q9_received >>

OpenWaterRerun ==
    /\ pc = "advance" /\ calls = 1
    /\ OpenWaterCall
    /\ calls' = 2
    /\ UNCHANGED << pc, q9_received >>

\* the driver moves to the next timestep and reads its forcing
Advance ==
    /\ pc = "advance"
    /\ step < MaxSteps
    /\ NextSlot(routing_store) <= MaxStore * SC
    /\ step' = step + 1
    /\ pc' = "surfacelayer"
    /\ calls' = 0
    /\ production_store' = Rotate(production_store)
    /\ nash_cascade_stores' = Rotate(nash_cascade_stores)
    /\ routing_store' = Rotate(routing_store)
    /\ \E fc \in Forcings :
          /\ rainfall_flux' = fc[1]
          /\ potential_water_evapotranspiration_flux' = fc[2]
          /\ zero_forcing' = (zero_forcing /\ fc = <<0, 0>>)
    /\ UNCHANGED << cfg, sl, ss, ow, error, q9_received >>

Next ==
    \/ SurfaceLayerRun
    \/ SurfaceLayerRerun
    \/ SubSurfaceRun
    \/ SubSurfaceRaise
    \/ SubSurfaceRerun
    \/ OpenWaterRun
    \/ OpenWaterRaise
    \/ OpenWaterRerun
    \/ Advance

Spec == Init /\ [][Next]_vars

\* ------------------------------------------------------------------- claims
\* the exponents are in the validated domain
ValidExponents == Beta(cfg) > 1 /\ Gamma(cfg) > 1

AllSlots == 1..HistLen
CascadeIndex == 1..cfg.nres

\* the records sl, ss and ow are those of the current timestep
AfterSurfaceLayer == pc \in {"subsurface", "openwater", "advance"}
AfterSubSurface == pc \in {"openwater", "advance"}
AfterOpenWater == pc = "advance"

\* C1: from the zero-initialised stores and with zero rainfall and zero
\* potential evapotranspiration at every step so far, every output of the
\* chain (throughfall, evaporation_soil_surface, actual evapotranspiration,
\* subsurface_runoff, streamflow q) is zero and every store is zero.
C1_ZeroForcingZeroOutput ==
    (zero_forcing /\ ValidExponents) =>
        /\ sl.throughfall = 0
        /\ sl.evaporation_soil_surface = 0
        /\ sl.actual_water_evapotranspiration_flux = 0
        /\ ss.subsurface_runoff = 0
        /\ ss.soil_water_stress = 0
        /\ ow.water_level = 0
        /\ ow.outgoing_water_volume_transport_along_river_channel = 0
        /\ \A i \in AllSlots :
              /\ production_store[i] = 0
              /\ routing_store[i] = 0
              /\ \A j \in CascadeIndex : nash_cascade_stores[i][j] = 0

\* the whole chain has run twice on zero forcing
C1_Witness ==
    /\ zero_forcing /\ ValidExponents
    /\ step >= 2 /\ AfterOpenWater /\ cfg.nres >= 2

\* C2: with validated parameters and non-negative forcing, every store value
\* held in any slot (production store after percolation, each cascade store,
\* routing store) is >= 0.
C2_StoresNonNegative ==
    ValidExponents =>
        \A i \in AllSlots :
            /\ production_store[i] >= 0
            /\ routing_store[i] >= 0
            /\ \A j \in CascadeIndex : nash_cascade_stores[i][j] >= 0

\* the exchange would have emptied the routing store below zero, and the
\* production and cascade stores hold water
C2_Witness ==
    /\ ValidExponents /\ AfterOpenWater
    /\ ow.r_ + ow.q9 + ow.f < 0
    /\ NextSlot(routing_store) = 0
    /\ NextSlot(production_store) > 0
    /\ \A j \in CascadeIndex : NextSlot(nash_cascade_stores)[j] > 0

\* C3: one call of SubSurface.run conserves the water of the cascade: the
\* new cascade stores plus the outflow quh of the last store equal the
\* previous cascade stores plus the injected pr = pn - ps + perc.
C3_CascadeConservesWater ==
    (AfterSubSurface /\ Beta(cfg) > 1) =>
        /\ ss.pr = ss.pn - ss.ps + ss.perc
        /\ SumSeq(nash_cascade_stores[1]) + ss.quh
              = SumSeq(nash_cascade_stores[HistLen]) + ss.pr

\* water was injected into a cascade that already held some, and left it
C3_Witness ==
    /\ AfterSubSurface /\ Beta(cfg) > 1 /\ cfg.nres >= 2
    /\ ss.pr > 0 /\ ss.perc > 0 /\ ss.quh > 0
    /\ SumSeq(nash_cascade_stores[HistLen]) > 0

\* C4: the cascade is a sequential recursion over the store index: store 0
\* takes its previous content plus pr, every later store takes its previous
\* content plus the outflow its predecessor released in this call, each
\* releases the fraction k = 1 - exp((1 - nres)/x4) of its updated content,
\* and subsurface_runoff is the last outflow over the timestep length.
C4_SequentialCascade ==
    (AfterSubSurface /\ Beta(cfg) > 1) =>
        LET before == nash_cascade_stores[HistLen]
            after == nash_cascade_stores[1]
            inflow(i) == IF i = 1 THEN ss.pr ELSE ss.qsh[i - 1]
        IN  /\ ss.k = SC - Exp(Div((1 - cfg.nres) * SC,
                                   X4OfStep(cfg.x4, cfg.dt)))
            /\ \A i \in CascadeIndex :
                  /\ ss.qsh[i] = Mul(before[i] + inflow(i), ss.k)
                  /\ after[i] = before[i] + inflow(i) - ss.qsh[i]
            /\ ss.subsurface_runoff = ToFlux(ss.qsh[cfg.nres], cfg.dt)

\* a later store received outflow of its predecessor on top of older content
C4_Witness ==
    /\ AfterSubSurface /\ Beta(cfg) > 1 /\ cfg.nres >= 2
    /\ nash_cascade_stores[HistLen][1] > 0
    /\ nash_cascade_stores[HistLen][2] > 0
    /\ ss.pr > 0 /\ ss.qsh[1] > 0
    /\ ss.subsurface_runoff > 0

\* C5: after OpenWater.run with gamma > 1, where the updated routing content
\* r is > 0 the outflow is qr = r * (1 - (1 + (r/x3)^(gamma-1))^(1/(1-gamma)))
\* with 0 <= qr <= r, and where r = 0 the outflow is 0.
C5_RoutingOutflowFormula ==
    (AfterOpenWater /\ Gamma(cfg) > 1) =>
        LET r == ow.r
            whole == SC + PowInt(Div(r, cfg.x3), Gamma(cfg) - 1)
        IN  /\ r = ClampRouting(ow.r_ + ow.q9 + ow.f)
            /\ r > 0 =>
                  /\ ow.qr = Mul(r, SC - Pow(whole, -1, Gamma(cfg) - 1))
                  /\ 0 <= ow.qr /\ ow.qr <= r
            /\ r = 0 => ow.qr = 0

\* C6 as stated: whenever the previous routing store is 0, the exchange f
\* is 0 and the routing outflow qr is 0, whatever the runoff inputs.
C6_EmptyStoreNoOutflow ==
    (AfterOpenWater /\ ow.r_ = 0) => (ow.f = 0 /\ ow.qr = 0)

\* C6 as amended: whenever the previous routing store is 0, the exchange f
\* is 0 and the updated content is r = max(q9, 0); the routing outflow qr is
\* 0 when that updated content is 0, that is when no runoff enters.
C6_EmptyStoreNoExchange ==
    (AfterOpenWater /\ ow.r_ = 0) =>
        /\ ow.f = 0
        /\ ow.r = Max(ow.q9, 0)
        /\ ow.q9 <= 0 => ow.qr = 0

\* an empty routing store received no runoff although the exchange
\* coefficient is not zero and the subsurface holds water
C6_Witness ==
    /\ AfterOpenWater /\ ow.r_ = 0 /\ ow.q9 = 0 /\ ow.qr = 0
    /\ cfg.x2 # 0 /\ NextSlot(production_store) > 0

\* a call of SubSurface.run or OpenWater.run, first or repeated
SubSurfaceStep ==
    \/ pc = "subsurface" /\ pc' \in {"openwater", "nonfinite"}
    \/ pc = "openwater" /\ calls = 1 /\ calls' = 2
OpenWaterStep ==
    \/ pc = "openwater" /\ pc' = "advance"
    \/ pc = "advance" /\ calls = 1 /\ calls' = 2

\* C7: with at least two slots, SubSurface.run and OpenWater.run read their
\* stores through the previous slot (index -1) only and write the next slot
\* (index 0) only: the values a call works from are those of the previous
\* slot, every slot but the next one holds after the call what it held
\* before, and the next slot holds the values the call computed.
C7_ReadPreviousWriteNext ==
    [][ /\ SubSurfaceStep =>
              /\ ss'.s_ = production_store[HistLen]
              /\ ss'.sh_ = nash_cascade_stores[HistLen]
              /\ production_store' = [production_store EXCEPT ![1] = ss'.s]
              /\ nash_cascade_stores'
                    = [nash_cascade_stores EXCEPT ![1] = ss'.sh]
              /\ routing_store' = routing_store
        /\ OpenWaterStep =>
              /\ ow'.r_ = routing_store[HistLen]
              /\ routing_store' = [routing_store EXCEPT ![1] = ow'.r]
              /\ production_store' = production_store
              /\ nash_cascade_stores' = nash_cascade_stores
      ]_vars

\* both components have written a next slot that differs from the
\* previous slot they read
C7_Witness ==
    /\ AfterOpenWater /\ step >= 2
    /\ production_store[1] # production_store[HistLen]
    /\ nash_cascade_stores[1] # nash_cascade_stores[HistLen]
    /\ routing_store[1] # routing_store[HistLen]
    /\ routing_store[HistLen] > 0

\* C8: a run function called a second time with the same previous slot,
\* inputs, parameters, constants and timestep returns the same exchanged and
\* recorded outputs and writes the same next slot; the first call changed
\* nothing the second reads.
C8_RunTwiceSameResult ==
    [][ (calls = 1 /\ calls' = 2) =>
           /\ sl' = sl /\ ss' = ss /\ ow' = ow
           /\ production_store' = production_store
           /\ nash_cascade_stores' = nash_cascade_stores
           /\ routing_store' = routing_store
      ]_vars

\* OpenWater.run was called twice on a filled store and a positive runoff
C8_Witness ==
    /\ AfterOpenWater /\ calls = 2 /\ step >= 2
    /\ ow.r_ > 0 /\ ow.q9 > 0 /\ ow.f # 0
    /\ ss.pr > 0 /\ sl.throughfall > 0
    /\ ow.outgoing_water_volume_transport_along_river_channel > 0

\* C9: SurfaceLayer.run puts the cell in exactly one regime by the sign of
\* excess = e - p: water-limited (excess >= 0) gives throughfall 0 and an
\* actual evapotranspiration depth es + p; energy-limited (excess < 0) gives
\* throughfall (p - e)/dt, evaporation_soil_surface 0 and an actual
\* evapotranspiration depth e.  Throughfall and evaporation_soil_surface are
\* never both positive.
C9_SurfaceRegimes ==
    AfterSurfaceLayer =>
        LET p == ToDepth(rainfall_flux, cfg.dt)
            e == ToDepth(potential_water_evapotranspiration_flux, cfg.dt)
            excess == e - p
        IN  /\ excess >= 0 =>
                  /\ sl.throughfall = 0
                  /\ sl.ae = sl.es + p
            /\ excess < 0 =>
                  /\ sl.throughfall = ToFlux(p - e, cfg.dt)
                  /\ sl.es = 0 /\ sl.evaporation_soil_surface = 0
                  /\ sl.ae = e
            /\ sl.actual_water_evapotranspiration_flux = ToFlux(sl.ae, cfg.dt)
            /\ ~(sl.throughfall > 0 /\ sl.evaporation_soil_surface > 0)

\* an energy-limited call on a soil that holds water
C9_Witness ==
    /\ AfterSurfaceLayer
    /\ sl.e > 0 /\ sl.p > sl.e
    /\ sl.throughfall > 0
    /\ ss.soil_water_stress > 0

\* C10: when beta = 1 reaches SubSurface.run or gamma = 1 reaches
\* OpenWater.run, the call ends with an invalid-model-configuration error,
\* returns nothing and leaves the next slot of its stores unwritten.
C10_InvalidExponentFailsFast ==
    /\ (Beta(cfg) = 1 /\ pc \notin {"surfacelayer", "subsurface"}) =>
          /\ pc = "raised"
          /\ error = "InvalidModelConfiguration"
          /\ ss = NoSubSurface(cfg.nres)
          /\ NextSlot(production_store) = 0
          /\ NextSlot(nash_cascade_stores) = Zeros(cfg.nres)
    /\ (Gamma(cfg) = 1 /\ pc \notin {"surfacelayer", "subsurface",
                                      "openwater"}) =>
          /\ pc = "raised"
          /\ error = "InvalidModelConfiguration"
          /\ ow = NoOpenWater
          /\ NextSlot(routing_store) = 0

\* C11: OpenWater.run never takes the routing outflow qr out of the routing
\* store: the value written to the next slot and emitted as water_level is
\* exactly max(r_ + q9 + f, 0).  With x2 = 0 the exchange f is 0, the store
\* never decreases from one timestep to the next, and after every step it
\* equals the sum of all q9 received, whatever streamflow was emitted.
C11_OutflowNeverLeavesStore ==
    AfterOpenWater =>
        /\ routing_store[1] = Max(routing_store[HistLen] + ow.q9 + ow.f, 0)
        /\ ow.water_level = routing_store[1]
        /\ cfg.x2 = 0 =>
              /\ ow.f = 0
              /\ ow.q9 >= 0
              /\ routing_store[1] >= routing_store[HistLen]
              /\ routing_store[1] = q9_received

\* with x2 = 0 the store filled over two timesteps while the call computed
\* a nonzero outflow and emitted streamflow
C11_Witness ==
    /\ AfterOpenWater /\ cfg.x2 = 0 /\ step >= 2
    /\ routing_store[HistLen] > 0 /\ ow.q9 > 0
    /\ ow.qr # 0
    /\ ow.outgoing_water_volume_transport_along_river_channel > 0
    /\ routing_store[1] = q9_received
====
